---- MODULE Spec2Model ----
(***************************************************************************)
(* Model of batch_images_to_a4_pdf_with_logging.py: batch_process_folder   *)
(* scans a directory, sorts the image files and hands them to              *)
(* create_a4_pdf, which lays them out six to a page on a 2 x 3 grid.       *)
(***************************************************************************)
EXTENDS Integers, Sequences, FiniteSets

\* ---------------------------------------------------------------- bounds
MaxImages == 13        \* most image files in the input directory
MaxFailures == 2       \* most per-entry failures injected over a behaviour
MaxRerunImages == 2    \* most image files when the batch is run repeatedly
MaxRuns == 2           \* batch runs on the unchanged directory
MaxClock == 3          \* clock ticks the behaviour may see
TicksPerSecond == 2    \* clock resolution finer than the %S field
Precision == 6         \* significand bits of the modelled float (binary64 has 53)
MaxPageDim == 6        \* largest page width and height, in points
MaxMargin == 2         \* largest outer and inner margin, in points
MaxImgDim == 8         \* largest image width and height, in pixels
MaxCellDim == 4        \* largest cell width and height, in points

\* ------------------------------------------------------ program constants
images_per_page == 6

image_extensions == <<"jpg", "jpeg", "png", "gif", "bmp">>

\* ------------------------------------------------------------- directory
\* File 0 is a non-image file (notes.txt); files 1..n are images.  A file's
\* number is the rank of its path in string order.
OtherFiles == {0}

ExtOf(f) == IF f \in OtherFiles THEN "txt" ELSE image_extensions[((f - 1) % 5) + 1]

\* glob.glob(os.path.join(input_folder, ext)): the matching files, in the
\* directory's own (unsorted) listing order, here descending.
RECURSIVE GlobFrom(_, _, _)
GlobFrom(files, ext, f) ==
    IF f < 0 THEN <<>>
    ELSE (IF f \in files /\ ExtOf(f) = ext THEN <<f>> ELSE <<>>)
         \o GlobFrom(files, ext, f - 1)

Glob(files, ext) == GlobFrom(files, ext, MaxImages + 1)

\* the loop of lines 199-203: extend image_files by each pattern's matches
RECURSIVE CollectFrom(_, _)
CollectFrom(files, k) ==
    IF k > Len(image_extensions) THEN <<>>
    ELSE Glob(files, image_extensions[k]) \o CollectFrom(files, k + 1)

Collect(files) == CollectFrom(files, 1)

RECURSIVE InsertSorted(_, _)
InsertSorted(x, s) ==
    IF s = <<>> THEN <<x>>
    ELSE IF x <= Head(s) THEN <<x>> \o s
    ELSE <<Head(s)>> \o InsertSorted(x, Tail(s))

\* image_files.sort()
RECURSIVE SortFiles(_)
SortFiles(s) == IF s = <<>> THEN <<>> ELSE InsertSorted(Head(s), SortFiles(Tail(s)))

NoImagesMut(files) == FALSE

\* if total_images == 0
NoImages(files) == Len(files) = 0

\* datetime.now().strftime("%Y%m%d_%H%M%S"): the clock truncated to seconds
Timestamp(now) == now \div TicksPerSecond

\* os.path.join(output_folder, f"images_{timestamp}.pdf")
PdfPath(now) == <<"images", Timestamp(now), "pdf">>

\* ------------------------------------------------------------ pagination
TotalPagesMut(n) == n \div images_per_page

TotalPages(n) == (n + images_per_page - 1) \div images_per_page

Min(a, b) == IF a <= b THEN a ELSE b

StartIdx(p) == p * images_per_page

EndIdx(p, n) == Min((p + 1) * images_per_page, n)

\* image_paths[start_idx:end_idx]
PageImages(paths, p) == SubSeq(paths, StartIdx(p) + 1, EndIdx(p, Len(paths)))

CellColMut(i) == 0

CellCol(i) == i % 2

CellRow(i) == i \div 2

NeedsPageBreakMut(p, total) == p < total

\* if page_num < total_pages - 1
NeedsPageBreak(p, total) == p < total - 1

\* ------------------------------------------------- per-entry outcomes
\* What the environment does to one entry: the file is missing, opening or
\* verifying it raises, drawImage raises, or the caption calls raise.
Outcomes == {"ok", "missing", "open_error", "draw_error", "text_error"}

DrawsImageMut(o) == o \in {"ok", "text_error", "missing"}

\* c.drawImage completes for this entry
DrawsImage(o) == o \in {"ok", "text_error"}

\* c.drawString completes for this entry
DrawsText(o) == o = "ok"

EntryCaughtMut(o) == o \in {"ok", "missing", "open_error"}

\* except Exception around the per-entry body (and the plain `continue`)
EntryCaught(o) == TRUE

\* ------------------------------------------------------ float arithmetic
\* A Python float is a binary floating-point number rounded to nearest,
\* ties to even.  Values are held as integers in units of 2^-FracBits and
\* every operation rounds its exact result to Precision significant bits.
RECURSIVE Pow2(_)
Pow2(k) == IF k = 0 THEN 1 ELSE 2 * Pow2(k - 1)

\* fraction bits of the stored integers: enough for every value the layout
\* produces from the bounded inputs to keep its full significand
FracBits == Precision + 5

Unit == Pow2(FracBits)

Abs(n) == IF n < 0 THEN -n ELSE n

Max(a, b) == IF a >= b THEN a ELSE b

\* spacing of the floats around n/d (n >= 0, d > 0)
RECURSIVE UlpOf(_, _, _)
UlpOf(n, d, u) == IF n < d * u * Pow2(Precision) THEN u ELSE UlpOf(n, d, 2 * u)

RoundHalfEven(n, d) ==
    LET q == n \div d
        r == n % d
    IN IF 2 * r < d THEN q
       ELSE IF 2 * r > d THEN q + 1
       ELSE IF q % 2 = 0 THEN q ELSE q + 1

\* the float nearest to n/d (d > 0)
Fl(n, d) ==
    LET a == Abs(n)
        u == UlpOf(a, d, 1)
        m == RoundHalfEven(a, d * u) * u
    IN IF n < 0 THEN -m ELSE m

FromInt(k) == k * Unit

FAdd(a, b) == Fl(a + b, 1)

FSub(a, b) == Fl(a - b, 1)

FMul(a, b) == Fl(a * b, Unit)

FDiv(a, b) == IF b > 0 THEN Fl(a * Unit, b) ELSE Fl((-a) * Unit, -b)

IsFloat(v) == Fl(v, 1) = v

\* ----------------------------------------------------------- grid layout
\* effective_width = a4_width - 2 * margin (and the same for the height)
Effective(pageDim, m) == FSub(pageDim, FromInt(2 * m))

ImgWidthMut(pageWidth, m, inner) == FDiv(Effective(pageWidth, m), FromInt(2))

\* img_width = (effective_width - inner_margin) / 2
ImgWidth(pageWidth, m, inner) ==
    FDiv(FSub(Effective(pageWidth, m), FromInt(inner)), FromInt(2))

\* img_height = (effective_height - 2 * inner_margin) / 3
ImgHeight(pageHeight, m, inner) ==
    FDiv(FSub(Effective(pageHeight, m), FromInt(2 * inner)), FromInt(3))

\* x = margin + col * (img_width + inner_margin)
CellX(m, inner, w, col) ==
    FAdd(FromInt(m), FMul(FromInt(col), FAdd(w, FromInt(inner))))

\* y = a4_height - margin - (row + 1) * img_height - row * inner_margin
CellY(pageHeight, m, inner, h, row) ==
    FSub(FSub(FSub(pageHeight, FromInt(m)), FMul(FromInt(row + 1), h)),
         FromInt(row * inner))

\* ------------------------------------------------------------- placement
\* img_ratio = img.width / img.height
ImgRatio(iw, ih) == FDiv(FromInt(iw), FromInt(ih))

\* target_ratio = img_width / img_height
TargetRatio(cw, ch) == FDiv(cw, ch)

ScaleMut(iw, ih, cw, ch) ==
    IF ImgRatio(iw, ih) > TargetRatio(cw, ch)
    THEN FDiv(ch, FromInt(ih))
    ELSE FDiv(cw, FromInt(iw))

\* lines 118-123: scale by width when the image is relatively wider
Scale(iw, ih, cw, ch) ==
    IF ImgRatio(iw, ih) > TargetRatio(cw, ch)
    THEN FDiv(cw, FromInt(iw))
    ELSE FDiv(ch, FromInt(ih))

\* new_width = img.width * scale, new_height = img.height * scale
Scaled(dim, scale) == FMul(FromInt(dim), scale)

\* (img_width - new_width) / 2, the centring offset added to x (and y)
Offset(cellDim, newDim) == FDiv(FSub(cellDim, newDim), FromInt(2))

VARIABLES
    dirIsDir,      \* os.path.isdir(input_folder)
    dirFiles,      \* the files of the input directory
    clock,         \* the wall clock, in ticks
    run,           \* number of the batch run in progress
    pc,            \* position of the run
    image_files,   \* batch_process_folder's sorted list
    pdf_path,      \* output path of this run, or <<>> before it is chosen
    canvasOpen,    \* canvas.Canvas(...) succeeded in this run
    page_num,      \* create_a4_pdf's page loop variable
    page_images,   \* the slice of the current page
    i,             \* the entry loop variable
    processed,     \* entries iterated so far: path, page, i, outcome
    ops,           \* calls the canvas has received, in order
    pdfResult,     \* create_a4_pdf's return value, "none" before it returns
    batchResult,   \* batch_process_folder's return value, "none" before
    outFiles,      \* documents present in the output directory
    history,       \* per finished run: path, batch result, pdf result
    failures,      \* failures injected so far
    pageW, pageH,  \* page size handed to the grid computation
    margin,        \* outer margin
    inner_margin,  \* margin between cells
    grid,          \* img_width and img_height, once computed
    boxes,         \* the cell boxes computed so far: row, col, x, y
    imgW, imgH,    \* pixel size of the image being placed
    cellW, cellH,  \* size of the cell it is placed in
    placement      \* scale, new size and offsets of the image

vars == <<dirIsDir, dirFiles, clock, run, pc, image_files, pdf_path,
          canvasOpen, page_num, page_images, i, processed, ops, pdfResult,
          batchResult, outFiles, history, failures,
          pageW, pageH, margin, inner_margin, grid, boxes,
          imgW, imgH, cellW, cellH, placement>>

gridVars == <<pageW, pageH, margin, inner_margin, grid, boxes>>

placeVars == <<imgW, imgH, cellW, cellH, placement>>

batchVars == <<dirIsDir, dirFiles, clock, run, pc, image_files, pdf_path,
               canvasOpen, page_num, page_images, i, processed, ops,
               pdfResult, batchResult, outFiles, history, failures>>

runVars == <<image_files, pdf_path, canvasOpen, page_num, page_images, i,
             processed, ops, pdfResult>>

Op(name, idx, page, row, col) ==
    [op |-> name, idx |-> idx, page |-> page, row |-> row, col |-> col]

NoGrid == [stage |-> "none", img_width |-> 0, img_height |-> 0]

NoPlacement ==
    [stage |-> "none", scale |-> 0, new_width |-> 0, new_height |-> 0,
     dx |-> 0, dy |-> 0]

GridIdle ==
    /\ pageW = 0
    /\ pageH = 0
    /\ margin = 0
    /\ inner_margin = 0
    /\ grid = NoGrid
    /\ boxes = <<>>

PlaceIdle ==
    /\ imgW = 1
    /\ imgH = 1
    /\ cellW = Unit
    /\ cellH = Unit
    /\ placement = NoPlacement

BatchIdle(maxImages) ==
    /\ \E n \in 0..maxImages : dirFiles = OtherFiles \cup (1..n)
    /\ clock = 0
    /\ run = 1
    /\ pc = "idle"
    /\ image_files = <<>>
    /\ pdf_path = <<>>
    /\ canvasOpen = FALSE
    /\ page_num = 0
    /\ page_images = <<>>
    /\ i = 0
    /\ processed = <<>>
    /\ ops = <<>>
    /\ pdfResult = "none"
    /\ batchResult = "none"
    /\ outFiles = {}
    /\ history = <<>>
    /\ failures = 0

Init ==
    /\ dirIsDir \in BOOLEAN
    /\ BatchIdle(MaxImages)
    /\ GridIdle
    /\ PlaceIdle

\* -------------------------------------------------- batch_process_folder
\* lines 186-188 and 195: the input is not a directory, or makedirs raises;
\* the outer handler returns False
BatchAbort ==
    /\ pc = "idle"
    /\ \/ ~dirIsDir
       \/ dirIsDir /\ failures < MaxFailures
    /\ failures' = IF dirIsDir THEN failures + 1 ELSE failures
    /\ batchResult' = "False"
    /\ pc' = "done"
    /\ UNCHANGED <<gridVars, placeVars, dirIsDir, dirFiles, clock, run, runVars, outFiles, history>>

\* lines 198-219: collect, sort, count; stop on zero images, else name the
\* output after the clock
BatchScan ==
    /\ pc = "idle"
    /\ dirIsDir
    /\ LET files == SortFiles(Collect(dirFiles)) IN
        /\ image_files' = files
        /\ IF NoImages(files)
           THEN /\ batchResult' = "False"
                /\ pc' = "done"
                /\ UNCHANGED pdf_path
           ELSE /\ pdf_path' = PdfPath(clock)
                /\ pc' = "create"
                /\ UNCHANGED batchResult
    /\ UNCHANGED <<gridVars, placeVars, dirIsDir, dirFiles, clock, run, canvasOpen, page_num,
                   page_images, i, processed, ops, pdfResult, outFiles,
                   history, failures>>

\* lines 225-226: the value of create_a4_pdf is dropped, True is returned
BatchReturn ==
    /\ pc = "returned"
    /\ batchResult' = "True"
    /\ pc' = "done"
    /\ UNCHANGED <<gridVars, placeVars, dirIsDir, dirFiles, clock, run, runVars, outFiles, history,
                   failures>>

\* --------------------------------------------------------- create_a4_pdf
\* lines 64-97: create the canvas, count the pages, enter the first page
CreateCanvas ==
    /\ pc = "create"
    /\ \E ok \in BOOLEAN :
        /\ ~ok => failures < MaxFailures
        /\ failures' = IF ok THEN failures ELSE failures + 1
        /\ IF ok
           THEN /\ canvasOpen' = TRUE
                /\ page_num' = 0
                /\ i' = 0
                /\ page_images' = PageImages(image_files, 0)
                /\ pc' = IF TotalPages(Len(image_files)) > 0 THEN "entry" ELSE "save"
                /\ UNCHANGED pdfResult
           ELSE /\ pdfResult' = "False"
                /\ pc' = "returned"
                /\ UNCHANGED <<canvasOpen, page_num, i, page_images>>
    /\ UNCHANGED <<gridVars, placeVars, dirIsDir, dirFiles, clock, run, image_files, pdf_path,
                   processed, ops, batchResult, outFiles, history>>

\* lines 100-161: one iteration of the entry loop
PlaceEntry ==
    /\ pc = "entry"
    /\ i < Len(page_images)
    /\ \E o \in Outcomes :
        /\ o # "ok" => failures < MaxFailures
        /\ failures' = IF o = "ok" THEN failures ELSE failures + 1
        /\ LET path == page_images[i + 1]
               idx == StartIdx(page_num) + i
               img == IF DrawsImage(o)
                      THEN <<Op("drawImage", idx, page_num, CellRow(i), CellCol(i))>>
                      ELSE <<>>
               txt == IF DrawsText(o)
                      THEN <<Op("drawString", idx, page_num, CellRow(i), CellCol(i))>>
                      ELSE <<>>
           IN /\ ops' = ops \o img \o txt
              /\ processed' = Append(processed,
                     [path |-> path, page |-> page_num, i |-> i, outcome |-> o])
        /\ IF EntryCaught(o)
           THEN /\ i' = i + 1
                /\ UNCHANGED <<pc, pdfResult>>
           ELSE /\ pdfResult' = "False"
                /\ pc' = "returned"
                /\ UNCHANGED i
    /\ UNCHANGED <<gridVars, placeVars, dirIsDir, dirFiles, clock, run, image_files, pdf_path,
                   canvasOpen, page_num, page_images, batchResult, outFiles,
                   history>>

\* lines 163-165 and the head of the page loop: break the page unless it is
\* the last, then enter the next page or leave the loop
EndPage ==
    /\ pc = "entry"
    /\ i = Len(page_images)
    /\ LET total == TotalPages(Len(image_files)) IN
        /\ ops' = IF NeedsPageBreak(page_num, total)
                  THEN Append(ops, Op("showPage", 0, page_num, 0, 0))
                  ELSE ops
        /\ page_num' = page_num + 1
        /\ IF page_num + 1 < total
           THEN /\ page_images' = PageImages(image_files, page_num + 1)
                /\ pc' = "entry"
           ELSE /\ page_images' = <<>>
                /\ pc' = "save"
    /\ i' = 0
    /\ UNCHANGED <<gridVars, placeVars, dirIsDir, dirFiles, clock, run, image_files, pdf_path,
                   canvasOpen, processed, pdfResult, batchResult, outFiles,
                   history, failures>>

\* lines 167-174: c.save() writes the document or raises
Save ==
    /\ pc = "save"
    /\ \E ok \in BOOLEAN :
        /\ ~ok => failures < MaxFailures
        /\ failures' = IF ok THEN failures ELSE failures + 1
        /\ ops' = Append(ops, Op("save", 0, page_num, 0, 0))
        /\ outFiles' = IF ok THEN outFiles \cup {pdf_path} ELSE outFiles
        /\ pdfResult' = IF ok THEN "True" ELSE "False"
    /\ pc' = "returned"
    /\ UNCHANGED <<gridVars, placeVars, dirIsDir, dirFiles, clock, run, image_files, pdf_path,
                   canvasOpen, page_num, page_images, i, processed,
                   batchResult, history>>

\* ----------------------------------------------------------- environment
Tick ==
    /\ clock < MaxClock
    /\ clock' = clock + 1
    /\ UNCHANGED <<gridVars, placeVars, dirIsDir, dirFiles, run, pc, runVars, batchResult,
                   outFiles, history, failures>>

\* the operator starts the program again on the unchanged directory
Rerun ==
    /\ pc = "done"
    /\ run < MaxRuns
    /\ history' = Append(history,
           [path |-> pdf_path, batch |-> batchResult, pdf |-> pdfResult])
    /\ run' = run + 1
    /\ pc' = "idle"
    /\ image_files' = <<>>
    /\ pdf_path' = <<>>
    /\ canvasOpen' = FALSE
    /\ page_num' = 0
    /\ page_images' = <<>>
    /\ i' = 0
    /\ processed' = <<>>
    /\ ops' = <<>>
    /\ pdfResult' = "none"
    /\ batchResult' = "none"
    /\ UNCHANGED <<gridVars, placeVars, dirIsDir, dirFiles, clock, outFiles, failures>>

\* one batch run
Next ==
    \/ BatchAbort
    \/ BatchScan
    \/ BatchReturn
    \/ CreateCanvas
    \/ PlaceEntry
    \/ EndPage
    \/ Save

Spec == Init /\ [][Next]_vars

\* repeated batch runs on an unchanged directory while the clock advances
InitRerun ==
    /\ dirIsDir = TRUE
    /\ BatchIdle(MaxRerunImages)
    /\ GridIdle
    /\ PlaceIdle

NextRerun ==
    \/ Next
    \/ Tick
    \/ Rerun

SpecRerun == InitRerun /\ [][NextRerun]_vars

\* ------------------------------------------- the grid computation alone
PageDims == {k * (Unit \div 2) : k \in 0..(2 * MaxPageDim)}

InitGrid ==
    /\ dirIsDir = FALSE
    /\ BatchIdle(0)
    /\ PlaceIdle
    /\ pageW \in PageDims
    /\ pageH \in PageDims
    /\ margin \in 0..MaxMargin
    /\ inner_margin \in 0..MaxMargin
    /\ grid = NoGrid
    /\ boxes = <<>>

\* lines 71-81: the size of a cell
ComputeGrid ==
    /\ grid.stage = "none"
    /\ grid' = [stage |-> "sized",
                img_width |-> ImgWidth(pageW, margin, inner_margin),
                img_height |-> ImgHeight(pageH, margin, inner_margin)]
    /\ UNCHANGED <<batchVars, placeVars, pageW, pageH, margin, inner_margin, boxes>>

\* lines 129-135: the box of the next cell, for i = 0..5
ComputeCell ==
    /\ grid.stage = "sized"
    /\ Len(boxes) < images_per_page
    /\ LET k == Len(boxes) IN
        boxes' = Append(boxes,
            [row |-> CellRow(k), col |-> CellCol(k),
             x |-> CellX(margin, inner_margin, grid.img_width, CellCol(k)),
             y |-> CellY(pageH, margin, inner_margin, grid.img_height, CellRow(k))])
    /\ UNCHANGED <<batchVars, placeVars, pageW, pageH, margin, inner_margin, grid>>

NextGrid ==
    \/ ComputeGrid
    \/ ComputeCell

SpecGrid == InitGrid /\ [][NextGrid]_vars

\* ------------------------------------------------ one placement alone
ImgDims == {n \in 1..MaxImgDim : IsFloat(FromInt(n))}

CellDims == {k * (Unit \div 4) : k \in 1..(4 * MaxCellDim)}

InitPlace ==
    /\ dirIsDir = FALSE
    /\ BatchIdle(0)
    /\ GridIdle
    /\ imgW \in ImgDims
    /\ imgH \in ImgDims
    /\ cellW \in CellDims
    /\ cellH \in CellDims
    /\ placement = NoPlacement

\* lines 113-127: the scale and the scaled size
ComputeScale ==
    /\ placement.stage = "none"
    /\ LET scale == Scale(imgW, imgH, cellW, cellH) IN
        placement' = [stage |-> "scaled", scale |-> scale,
                      new_width |-> Scaled(imgW, scale),
                      new_height |-> Scaled(imgH, scale),
                      dx |-> 0, dy |-> 0]
    /\ UNCHANGED <<batchVars, gridVars, imgW, imgH, cellW, cellH>>

\* lines 138-145: the offsets of the drawn image inside its cell
CentreImage ==
    /\ placement.stage = "scaled"
    /\ placement' = [placement EXCEPT
                        !.stage = "centred",
                        !.dx = Offset(cellW, placement.new_width),
                        !.dy = Offset(cellH, placement.new_height)]
    /\ UNCHANGED <<batchVars, gridVars, imgW, imgH, cellW, cellH>>

NextPlace ==
    \/ ComputeScale
    \/ CentreImage

SpecPlace == InitPlace /\ [][NextPlace]_vars

\* ---------------------------------------------------------------- helpers
CeilDiv(n, d) == CHOOSE k \in 0..n : d * k >= n /\ (k = 0 \/ d * (k - 1) < n)

OpsNamed(name) == {k \in DOMAIN ops : ops[k].op = name}

Draws == OpsNamed("drawImage")

\* the paths iterated on page p, in iteration order
ProcessedOn(p) ==
    LET sel == SelectSeq(processed, LAMBDA e : e.page = p)
    IN [k \in 1..Len(sel) |-> sel[k].path]

ProcessedPaths == [k \in 1..Len(processed) |-> processed[k].path]

\* create_a4_pdf has left its page loop / has returned
LoopDone == canvasOpen /\ pc \in {"save", "returned", "done"}

PdfReturned == canvasOpen /\ pc \in {"returned", "done"}

\* c.save() was called and raised
SaveRaised ==
    /\ ops # <<>>
    /\ ops[Len(ops)].op = "save"
    /\ pdf_path \notin outFiles

\* ------------------------------------------------------------------ C1
\* C1: N entries are processed as ceil(N/6) pages, page p receives exactly
\* the entries at input indices [6p, min(6(p+1), N)) in their original
\* order, and the pages' entries concatenated in page order are the input
\* list: nothing dropped, duplicated or reordered.
C1_Pagination ==
    /\ canvasOpen =>
          /\ Len(processed) <= Len(image_files)
          /\ ProcessedPaths = SubSeq(image_files, 1, Len(processed))
    /\ LoopDone =>
          LET n == Len(image_files) IN
          /\ page_num = CeilDiv(n, 6)
          /\ ProcessedPaths = image_files
          /\ \A p \in 0..(page_num - 1) :
                ProcessedOn(p) =
                    [k \in 1..(Min(6 * (p + 1), n) - 6 * p) |-> image_files[6 * p + k]]

C1_Witness ==
    /\ pc = "done"
    /\ canvasOpen
    /\ Len(image_files) = 13
    /\ page_num = 3
    /\ <<Len(ProcessedOn(0)), Len(ProcessedOn(1)), Len(ProcessedOn(2))>> = <<6, 6, 1>>

\* ------------------------------------------------------------------ C2
\* C2: in every state of a run, whatever entries fail, each page holds at
\* most 6 placed entries, no two placed entries of a page share a cell,
\* every cell has row in 0..2 and col in 0..1, the entry at in-page position
\* i sits in cell (i \div 2, i % 2), and the cells of a page are filled
\* left to right, top to bottom in input order.
C2_CellsDistinctAndOrdered ==
    /\ \A k \in Draws :
          /\ ops[k].row \in 0..2
          /\ ops[k].col \in 0..1
          /\ ops[k].row = (ops[k].idx - 6 * ops[k].page) \div 2
          /\ ops[k].col = (ops[k].idx - 6 * ops[k].page) % 2
          /\ Cardinality({j \in Draws : ops[j].page = ops[k].page}) <= 6
    /\ \A j, k \in Draws :
          (j < k /\ ops[j].page = ops[k].page) =>
              /\ <<ops[j].row, ops[j].col>> # <<ops[k].row, ops[k].col>>
              /\ ops[j].idx < ops[k].idx
              /\ 2 * ops[j].row + ops[j].col < 2 * ops[k].row + ops[k].col

C2_Witness ==
    /\ pc = "done"
    /\ failures > 0
    /\ Cardinality({k \in Draws : ops[k].page = 0}) = 6
    /\ \E k \in Draws : ops[k].page = 1

\* ------------------------------------------------------------------ C3
\* the processed entries of page p that come before in-page position pos
EarlierOn(p, pos) == {j \in DOMAIN processed : processed[j].page = p /\ processed[j].i < pos}

\* the draws on page p made before op k
EarlierDrawsOn(p, k) == {j \in Draws : j < k /\ ops[j].page = p}

\* the only entries of page p skipped before op k were missing files
OnlyMissingBefore(k) ==
    \A j \in EarlierOn(ops[k].page, ops[k].idx - 6 * ops[k].page) :
        processed[j].outcome \in {"ok", "missing"}

\* C3 as claimed: a missing file does not consume a cell, the k-th entry
\* actually placed on a page (counting placed entries only) sits in cell
\* (k \div 2, k % 2), so no blank cell precedes a placed entry.
C3_Original_Compaction ==
    \A k \in Draws :
        OnlyMissingBefore(k) =>
            LET placed == Cardinality(EarlierDrawsOn(ops[k].page, k)) IN
            /\ ops[k].row = placed \div 2
            /\ ops[k].col = placed % 2

\* C3 amended: an entry whose file does not exist is skipped without
\* aborting the run and nothing is drawn for it, but it keeps its slot:
\* every placed entry sits in the cell of its position among ALL entries
\* iterated on its page (skipped ones included), so the cell of a missing
\* entry stays blank.
C3_MissingLeavesBlank ==
    /\ \A j \in DOMAIN processed :
          processed[j].outcome = "missing" =>
              /\ \A k \in DOMAIN ops :
                    ops[k].op \in {"drawImage", "drawString"} =>
                        <<ops[k].page, ops[k].row, ops[k].col>> #
                            <<processed[j].page, CellRow(processed[j].i), CellCol(processed[j].i)>>
              /\ (j = Len(processed) /\ j < Len(image_files)) => pc = "entry"
              /\ pdfResult = "False" => SaveRaised
    /\ \A k \in Draws :
          LET pos == Cardinality(EarlierOn(ops[k].page, ops[k].idx - 6 * ops[k].page)) IN
          /\ ops[k].row = pos \div 2
          /\ ops[k].col = pos % 2

\* a missing first entry leaves cell (0, 0) blank; the next entry is in (0, 1)
C3_Witness ==
    /\ processed # <<>>
    /\ processed[1].outcome = "missing"
    /\ \E k \in Draws : ops[k].page = 0 /\ ops[k].row = 0 /\ ops[k].col = 1
    /\ ~ \E k \in Draws : ops[k].page = 0 /\ ops[k].row = 0 /\ ops[k].col = 0
    /\ pc = "done"
    /\ pdfResult = "True"

\* ------------------------------------------------------------------ C4
\* C4: when create_a4_pdf returns False (the canvas could not be created
\* or c.save() raised), batch_process_folder returns False, never True.
C4_SaveFailureFailsBatch ==
    (pc = "done" /\ pdfResult = "False") => batchResult = "False"

\* ------------------------------------------------------------------ C5
\* C5: a failure placing one entry never aborts the run: every entry is
\* still iterated, each non-failing entry is drawn exactly once, on page
\* index \div 6, c.save() is still called, and create_a4_pdf returns True
\* unless c.save() itself raises.
C5_EntryFailureIsolated ==
    PdfReturned =>
        /\ Len(processed) = Len(image_files)
        /\ \A j \in DOMAIN processed :
              processed[j].outcome = "ok" =>
                  /\ Cardinality({k \in Draws : ops[k].idx = j - 1}) = 1
                  /\ Cardinality({k \in OpsNamed("drawString") : ops[k].idx = j - 1}) = 1
                  /\ \A k \in Draws : ops[k].idx = j - 1 => ops[k].page = (j - 1) \div 6
        /\ OpsNamed("save") # {}
        /\ pdfResult = "True" \/ SaveRaised
        /\ pdfResult = "True" => pdf_path \in outFiles

C5_Witness ==
    /\ pc = "done"
    /\ pdfResult = "True"
    /\ pdf_path \in outFiles
    /\ \E j, k \in DOMAIN processed :
          /\ j < k
          /\ processed[j].outcome = "draw_error"
          /\ processed[k].outcome = "ok"
          /\ processed[k].page > processed[j].page
    /\ \E j \in DOMAIN processed : processed[j].outcome \in {"missing", "open_error", "text_error"}

\* ------------------------------------------------------------------ C6
\* C6: once the canvas exists, whatever entries fail, a page break follows
\* the last entry of every page but the last and precedes every entry of
\* the next page (totalPages - 1 breaks in all), and save is called exactly
\* once, after the last page's entries, with no draw or break after it.
C6_BreaksAndSingleSave ==
    canvasOpen =>
        LET total == CeilDiv(Len(image_files), 6)
            breaks == OpsNamed("showPage")
            saves == OpsNamed("save")
        IN
        /\ Cardinality(breaks) = Min(page_num, total - 1)
        /\ \A k \in DOMAIN ops :
              ops[k].op \in {"drawImage", "drawString"} =>
                  Cardinality({b \in breaks : b < k}) = ops[k].page
        /\ \A b \in breaks :
              /\ ops[b].page < total - 1
              /\ Cardinality({c \in breaks : c < b}) = ops[b].page
        /\ Len(processed) >= Min(6 * page_num, Len(image_files))
        /\ Len(processed) <= 6 * (page_num + 1)
        /\ Cardinality(saves) <= 1
        /\ \A s \in saves :
              /\ s = Len(ops)
              /\ Len(processed) = Len(image_files)
              /\ Cardinality(breaks) = total - 1
        /\ PdfReturned => Cardinality(saves) = 1
        /\ pc \in {"entry", "save"} => saves = {}

C6_Witness ==
    /\ pc = "done"
    /\ canvasOpen
    /\ failures > 0
    /\ Cardinality(OpsNamed("showPage")) = 2
    /\ ops[Len(ops)].op = "save"
    /\ \E k \in Draws : ops[k].page = 2

\* ------------------------------------------------------------------ C7
ImageFilesIn(files) == {f \in files : \E k \in DOMAIN image_extensions : ExtOf(f) = image_extensions[k]}

\* C7: on an existing directory without any file matching the image
\* patterns, batch_process_folder returns False, create_a4_pdf is never
\* invoked, no canvas is created, nothing is saved, no document appears.
C7_NoImagesNoDocument ==
    (dirIsDir /\ ImageFilesIn(dirFiles) = {}) =>
        /\ pc \in {"idle", "done"}
        /\ ~canvasOpen
        /\ ops = <<>>
        /\ outFiles = {}
        /\ pdfResult = "none"
        /\ pdf_path = <<>>
        /\ pc = "done" => batchResult = "False"

C7_Witness ==
    /\ dirIsDir
    /\ dirFiles = OtherFiles
    /\ pc = "done"
    /\ failures = 0
    /\ batchResult = "False"
    /\ outFiles = {}

\* ----------------------------------------------------------------- C10
\* C10: the second run on the unchanged directory chooses an output path
\* different from the first run's, so it never overwrites that document.
C10_RerunDistinctPaths ==
    (run = 2 /\ pdf_path # <<>> /\ history[1].path # <<>>) =>
        pdf_path # history[1].path

\* ------------------------------------------------------------------ C8
\* the box of cell k as the interval [lo, hi] it covers on each axis
BoxLoX(k) == Min(boxes[k].x, boxes[k].x + grid.img_width)

BoxHiX(k) == Max(boxes[k].x, boxes[k].x + grid.img_width)

BoxLoY(k) == Min(boxes[k].y, boxes[k].y + grid.img_height)

BoxHiY(k) == Max(boxes[k].y, boxes[k].y + grid.img_height)

Positive(v) == Max(v, 0)

\* how far box k reaches outside [M, W-M] x [M, H-M]
Outside(k) ==
    Max(Max(Positive(FromInt(margin) - BoxLoX(k)),
            Positive(BoxHiX(k) - (pageW - FromInt(margin)))),
        Max(Positive(FromInt(margin) - BoxLoY(k)),
            Positive(BoxHiY(k) - (pageH - FromInt(margin)))))

\* the depth by which boxes j and k overlap, 0 when they do not
Overlap(j, k) ==
    LET ox == Min(BoxHiX(j), BoxHiX(k)) - Max(BoxLoX(j), BoxLoX(k))
        oy == Min(BoxHiY(j), BoxHiY(k)) - Max(BoxLoY(j), BoxLoY(k))
    IN IF ox > 0 /\ oy > 0 THEN Min(ox, oy) ELSE 0

\* v is at most 8 units of roundoff (2^-Precision) of ref
WithinRounding(v, ref) == v * Pow2(Precision) <= 8 * ref

C9_Original_ExactFit ==
    placement.stage # "none" =>
        /\ placement.new_width <= cellW
        /\ placement.new_height <= cellH
        /\ placement.new_width = cellW \/ placement.new_height = cellH
        /\ placement.stage = "centred" => placement.dx >= 0 /\ placement.dy >= 0

\* C9 amended: the scaled image fits the cell on both axes and meets it on
\* one axis up to floating-point rounding: it exceeds the cell by at most 8
\* units of roundoff of the cell's size, comes that close to it on one
\* axis, and the centring offsets are negative by at most half of that.
C9_FitWithinRounding ==
    placement.stage # "none" =>
        /\ WithinRounding(placement.new_width - cellW, cellW)
        /\ WithinRounding(placement.new_height - cellH, cellH)
        /\ \/ WithinRounding(Abs(placement.new_width - cellW), cellW)
           \/ WithinRounding(Abs(placement.new_height - cellH), cellH)
        /\ placement.stage = "centred" =>
              /\ WithinRounding(-2 * placement.dx, cellW)
              /\ WithinRounding(-2 * placement.dy, cellH)

C9_Witness ==
    /\ placement.stage = "centred"
    /\ imgW > imgH
    /\ cellW < cellH
    /\ placement.new_width = cellW
    /\ placement.new_height < cellH
    /\ placement.dx = 0
    /\ placement.dy > 0
====
